---- MODULE Spec2Model ----
(***************************************************************************)
(* Model of the AuthProxy plugin (plugins/experimental/authproxy/          *)
(* authproxy.cc): the table-driven authorization state machine             *)
(* (AuthRequestContext::dispatch and the State* handlers), the OS_DNS hook *)
(* that creates attempts, and the host's transport notifications.          *)
(*                                                                         *)
(* One AuthRequestContext exists per transaction at a time; auth[t] is the *)
(* context of transaction t, txn[t] the host's transaction, net[t] the     *)
(* host's side of the secondary connection.  dispatch is modelled on an    *)
(* explicit call stack so that a notification delivered inside the call    *)
(* that issued the operation (an inline host lookup) nests as in the code. *)
(***************************************************************************)
EXTENDS Integers, Sequences, FiniteSets, TLC

\* ---------------------------------------------------------------- bounds
MaxTxn  == 2   \* transactions the model has room for
MaxBody == 2   \* most body bytes the secondary server sends
MaxClen == 2   \* largest Content-Length the secondary response declares
HdrLen  == 2   \* bytes of the secondary response's header block
MaxArgs == 2   \* most options on a command line given to AuthParseOptions
MaxReason == 16  \* longest reason phrase TSHttpHdrReasonLookup is taken to return

Txns == 1..MaxTxn

\* ------------------------------------------------------------- AuthOptions
\* AuthOptions objects are referred to by pointer; 0 is the NULL pointer.
NullOptions == 0
OptionIds   == 1..4

\* options->transform of the four option objects the model distinguishes.
OptTransform(o) == IF o \in {1, 2} THEN "AuthWriteRedirectedRequest"
                   ELSE "AuthWriteHeadRequest"

\* options->force of the four option objects.
OptForce(o) == o \in {2, 4}

\* ------------------------------------------------------- AuthParseOptions
\* The command line options of the plugin, as getopt_long returns them: the
\* short code of the longopt table and optarg.
Opt(code, optarg) == [code |-> code, optarg |-> optarg]

\* Names given to auth-transform: the two known ones, in other cases too, and
\* an unknown one.
TransformNames == {"redirect", "REDIRECT", "head", "Head", "basic"}

OptionArgs ==
    {Opt("t", n) : n \in TransformNames}
    \cup {Opt("c", ""), Opt("h", "auth.example.com"), Opt("p", "9000")}

\* The command lines of at most n options.
RECURSIVE ArgvUpTo(_)
ArgvUpTo(n) ==
    IF n = 0 THEN {<< >>}
    ELSE LET shorter == ArgvUpTo(n - 1)
         IN  shorter \cup {Append(a, o) : a \in shorter, o \in OptionArgs}

\* tolower on the names the model uses.
ToLower(str) ==
    CASE str = "REDIRECT" -> "redirect"
      [] str = "Head"     -> "head"
      [] OTHER            -> str

\* strcasecmp(a, b) == 0
StrCaseEq(a, b) == ToLower(a) = ToLower(b)

\* std::atoi on the port arguments the model uses.
Atoi(str) == IF str = "9000" THEN 9000 ELSE 0

\* The AuthOptions object as AuthParseOptions has it before the getopt loop:
\* the constructor's values, then the redirect transform and 127.0.0.1.
DefaultOptions ==
    [hostname |-> "127.0.0.1", hostport |-> 8080, force |-> FALSE,
     transform |-> "AuthWriteRedirectedRequest"]

\* One turn of the getopt loop of AuthParseOptions on option o: the options
\* and the number of TSLogError calls after it.
ParseOption(options, errors, o) ==
    CASE o.code = "h" -> [options |-> [options EXCEPT !.hostname = o.optarg],
                          errors  |-> errors]
      [] o.code = "p" -> [options |-> [options EXCEPT !.hostport = Atoi(o.optarg)],
                          errors  |-> errors]
      [] o.code = "c" -> [options |-> [options EXCEPT !.force = TRUE],
                          errors  |-> errors]
      [] o.code = "t" ->
            IF StrCaseEq(o.optarg, "redirect")
            THEN [options |-> [options EXCEPT !.transform = "AuthWriteRedirectedRequest"],
                  errors  |-> errors]
            ELSE IF StrCaseEq(o.optarg, "head")
            THEN [options |-> [options EXCEPT !.transform = "AuthWriteHeadRequest"],
                  errors  |-> errors]
            ELSE [options |-> options, errors |-> errors + 1]
      [] OTHER -> [options |-> options, errors |-> errors]

\* No call of AuthParseOptions is under way.
NoParse == [argv |-> << >>, optind |-> 0, options |-> DefaultOptions, errors |-> 0,
            returned |-> FALSE]

\* ---------------------------------------------------------------- statuses
TS_HTTP_STATUS_FORBIDDEN == 403

\* Status codes the secondary server answers with (both edges of 2xx).
Statuses == {199, 200, 299, 300, 403, 599}

\* --------------------------------------------------------- HTTP header data
\* clen = -1 stands for "no Content-Length field".
NoClen == 0 - 1

EmptyHeader == [status |-> 0, chunked |-> FALSE, clen |-> NoClen]

Headers == [status : Statuses, chunked : BOOLEAN, clen : {NoClen} \cup (0..MaxClen)]

\* utils.cc HttpGetContentLength: the declared length, 0 when the field is absent.
HttpGetContentLength(h) == IF h.clen = NoClen THEN 0 ELSE h.clen

\* utils.cc HttpIsChunkedEncoding: Transfer-Encoding: chunked is present.
HttpIsChunkedEncoding(h) == h.chunked

\* The byte stream of the secondary response: HdrLen header bytes (written 0)
\* followed by the body bytes 1, 2, 3, ...
StreamByte(i) == IF i <= HdrLen THEN 0 ELSE i - HdrLen

StreamBytes(from, n) == [i \in 1..n |-> StreamByte(from + i)]

\* ------------------------------------------------------------ error bodies
\* What TSHttpTxnErrorBodySet was last given.
NoBody == [kind |-> "none", status |-> 0, bytes |-> <<>>]

\* StateUnauthorized's fixed message "authorization denied\n".
ForbiddenBody == [kind |-> "authorization denied", status |-> 0, bytes |-> <<>>]

\* StateAuthProxySendResponse's message "<status> <reason>\n".
StatusReasonBody(status) == [kind |-> "status reason", status |-> status, bytes |-> <<>>]

\* A body made of bytes read from the secondary connection.
BytesBody(bytes) == [kind |-> "bytes", status |-> 0, bytes |-> bytes]

\* strlen of what TSHttpTxnErrorBodySet was given, when the reason phrase
\* TSHttpHdrReasonLookup returned is reason characters long: "%d %s\n" prints
\* the three digits of the status, a blank, the phrase and a newline;
\* "authorization denied\n" is 21 characters.
ErrorBodyLength(body, reason) ==
    CASE body.kind = "status reason"        -> 3 + 1 + reason + 1
      [] body.kind = "authorization denied" -> 21
      [] body.kind = "bytes"                -> Len(body.bytes)
      [] OTHER                              -> 0

\* ------------------------------------------------------------ state tables
Tr(e, h, n) == [event |-> e, handler |-> h, next |-> n]

\* The { TS_EVENT_NONE, NULL, NULL } entry that ends every table.
Sentinel == Tr("NONE", "NULL", "NULL")

StateTableSendResponse ==
    << Tr("HTTP_SEND_RESPONSE_HDR", "StateAuthProxySendResponse", "NULL") >>

\* StateTableProxyReadContent whose EOS entry leads back to the header table.
StateTableProxyReadContentBackToHeader ==
    << Tr("VCONN_READ_READY",       "StateAuthProxyReadContent",     "StateTableProxyReadContent"),
       Tr("VCONN_READ_COMPLETE",    "StateAuthProxyReadContent",     "StateTableProxyReadContent"),
       Tr("VCONN_EOS",              "StateAuthProxyCompleteContent", "StateTableProxyReadHeader"),
       Tr("HTTP_SEND_RESPONSE_HDR", "StateContinue",                 "StateTableSendResponse"),
       Tr("ERROR",                  "StateUnauthorized",             "NULL"),
       Tr("IMMEDIATE",              "StateAuthorized",               "NULL") >>

StateTableProxyReadContent ==
    << Tr("VCONN_READ_READY",       "StateAuthProxyReadContent",     "StateTableProxyReadContent"),
       Tr("VCONN_READ_COMPLETE",    "StateAuthProxyReadContent",     "StateTableProxyReadContent"),
       Tr("VCONN_EOS",              "StateAuthProxyCompleteContent", "StateTableProxyReadContent"),
       Tr("HTTP_SEND_RESPONSE_HDR", "StateContinue",                 "StateTableSendResponse"),
       Tr("ERROR",                  "StateUnauthorized",             "NULL"),
       Tr("IMMEDIATE",              "StateAuthorized",               "NULL") >>

StateTableProxyReadHeader ==
    << Tr("VCONN_READ_READY",       "StateAuthProxyReadHeaders",     "StateTableProxyReadHeader"),
       Tr("VCONN_READ_COMPLETE",    "StateAuthProxyReadHeaders",     "StateTableProxyReadHeader"),
       Tr("HTTP_READ_REQUEST_HDR",  "StateAuthProxyCompleteHeaders", "StateTableProxyReadHeader"),
       Tr("HTTP_SEND_RESPONSE_HDR", "StateContinue",                 "StateTableSendResponse"),
       Tr("HTTP_CONTINUE",          "StateAuthProxyReadContent",     "StateTableProxyReadContent"),
       Tr("VCONN_EOS",              "StateUnauthorized",             "NULL"),
       Tr("ERROR",                  "StateUnauthorized",             "NULL"),
       Tr("IMMEDIATE",              "StateAuthorized",               "NULL") >>

StateTableProxyRequest ==
    << Tr("HOST_LOOKUP",          "StateAuthProxyConnect",       "StateTableProxyRequest"),
       Tr("VCONN_WRITE_COMPLETE", "StateAuthProxyWriteComplete", "StateTableProxyReadHeader"),
       Tr("ERROR",                "StateUnauthorized",           "NULL") >>

StateTableInit ==
    << Tr("HTTP_OS_DNS", "StateAuthProxyResolve", "StateTableProxyRequest"),
       Tr("ERROR",       "StateUnauthorized",     "NULL") >>

\* The place of a table in the order in which the source declares the states
\* an attempt goes through (the tables are defined last to first); the NULL
\* pointer of a terminated attempt comes last.
Rank(name) ==
    CASE name = "StateTableInit"             -> 0
      [] name = "StateTableProxyRequest"     -> 1
      [] name = "StateTableProxyReadHeader"  -> 2
      [] name = "StateTableProxyReadContent" -> 3
      [] name = "StateTableSendResponse"     -> 4
      [] OTHER                               -> 5

\* The table a state pointer names.
Table(name) ==
    CASE name = "StateTableInit"             -> StateTableInit
      [] name = "StateTableProxyRequest"     -> StateTableProxyRequest
      [] name = "StateTableProxyReadHeader"  -> StateTableProxyReadHeader
      [] name = "StateTableProxyReadContent" -> StateTableProxyReadContent
      [] name = "StateTableSendResponse"     -> StateTableSendResponse
      [] OTHER                               -> << >>

TableNames == {"StateTableInit", "StateTableProxyRequest", "StateTableProxyReadHeader",
               "StateTableProxyReadContent", "StateTableSendResponse"}

\* dispatch's search loop taking the table's TS_EVENT_ERROR entry when no entry
\* matches the event.
FindTransitionFallsBack(state, event) ==
    LET tab  == Table(state)
        hit  == {i \in 1..Len(tab) : tab[i].event = event}
        errs == {i \in 1..Len(tab) : tab[i].event = "ERROR"}
    IN  IF hit # {} THEN tab[CHOOSE i \in hit : \A j \in hit : i <= j]
        ELSE IF errs # {} THEN tab[CHOOSE i \in errs : TRUE]
        ELSE Sentinel

\* dispatch's search loop: the first entry of the table whose event matches,
\* the terminating entry (handler NULL) when none does.
FindTransition(state, event) ==
    LET tab == Table(state)
        hit == {i \in 1..Len(tab) : tab[i].event = event}
    IN  IF hit = {} THEN Sentinel
        ELSE tab[CHOOSE i \in hit : \A j \in hit : i <= j]

\* ------------------------------------------------------------------- state
VARIABLES
    AuthGlobalOptions,  \* the global AuthOptions pointer (NullOptions: remap mode only)
    txn,                \* txn[t]: the host's original transaction t
    auth,               \* auth[t]: the AuthRequestContext of transaction t
    net,                \* net[t]: the host's side of the secondary connection
    hist,               \* hist[t]: what the current attempt of t has done so far
    stack,              \* the nested calls of AuthRequestContext::dispatch
    aborted,            \* "no", or how the process ended
    parse               \* the call of AuthParseOptions under way, if any

vars == <<AuthGlobalOptions, txn, auth, net, hist, stack, aborted, parse>>

\* A transaction the model does not use.
NoTxn == [at |-> "absent", internal |-> FALSE, tag |-> NullOptions, method |-> "unread",
          originHost |-> "unread", hooksLeft |-> 0, sendHook |-> FALSE, retStatus |-> 0,
          errorBody |-> NoBody, cacheable |-> TRUE, ignoreAuth |-> FALSE,
          clientResp |-> EmptyHeader]

\* Memory that holds no AuthRequestContext (before allocate).
NoAuth == [alive |-> FALSE, state |-> "NULL", vconn |-> "NULL", is_head |-> FALSE,
           read_body |-> TRUE, iobuf |-> <<>>, parsed |-> 0, rheader |-> EmptyHeader]

\* The secondary server's answer before it has decided one.
NoResponse == [chosen |-> FALSE, malformed |-> FALSE, header |-> EmptyHeader]

\* The answers the secondary server can give: a well-formed header block, or
\* bytes that are no HTTP response header.
Responses == {[chosen |-> TRUE, malformed |-> FALSE, header |-> h] : h \in Headers}
             \cup {[chosen |-> TRUE, malformed |-> TRUE, header |-> EmptyHeader]}

\* What the secondary server can make of its answer when it sends bytes: as
\* long as the header block is incomplete the bytes sent so far fit every
\* header, or they are malformed; the bytes that complete the block fix it.
Answers(known, complete) ==
    IF known.chosen THEN {known}
    ELSE IF complete THEN Responses
    ELSE {NoResponse} \cup {r \in Responses : r.malformed}

\* A secondary connection that was never opened.
NoNet == [open |-> FALSE, pending |-> "none", resp |-> NoResponse, sent |-> 0]

\* An attempt that has done nothing yet.
NoHist == [attempts |-> 0, opens |-> 0, closes |-> 0, destroys |-> 0, uaf |-> FALSE,
           reenabled |-> <<>>, ran |-> {}, entered |-> {}, lookups |-> 0,
           inline |-> FALSE, dns |-> "none", connects |-> 0, back |-> FALSE,
           resumedOpen |-> FALSE, resumedIgnoreAuth |-> FALSE,
           sendInline |-> FALSE]

\* How many times the host calls AuthProxyGlobalHook for OS_DNS on a transaction:
\* once for the global hook TSPluginInit adds (it always sets AuthGlobalOptions)
\* and once for the transaction hook TSRemapDoRemap adds when it tags.
OsDnsHooks(globalOptions, tag) ==
    (IF globalOptions # NullOptions THEN 1 ELSE 0) + (IF tag # NullOptions THEN 1 ELSE 0)

\* A transaction as it reaches the OS_DNS hook point.
NewTxn(globalOptions, in) ==
    [NoTxn EXCEPT !.at = IF OsDnsHooks(globalOptions, in.tag) > 0 THEN "os_dns_ready"
                         ELSE "proceed",
                  !.internal = in.internal, !.tag = in.tag,
                  !.hooksLeft = OsDnsHooks(globalOptions, in.tag)]

\* What the host decides about a transaction before the hook.  The client
\* request's method and origin host are fixed too, but the model learns them
\* when the plugin first reads them (txn.method, txn.originHost).
TxnInputs == [internal : BOOLEAN, tag : {NullOptions} \cup OptionIds]

\* The state with the transactions of `live` about to reach the OS_DNS hook.
InitWith(live) ==
    /\ AuthGlobalOptions \in {NullOptions} \cup OptionIds
    /\ \E in \in [live -> TxnInputs] :
          txn = [t \in Txns |-> IF t \in live THEN NewTxn(AuthGlobalOptions, in[t])
                                ELSE NoTxn]
    /\ auth = [t \in Txns |-> NoAuth]
    /\ net = [t \in Txns |-> NoNet]
    /\ hist = [t \in Txns |-> NoHist]
    /\ stack = <<>>
    /\ aborted = "no"
    /\ parse = NoParse

Init == InitWith({1})

\* --------------------------------------------------------------- the host
\* Handlers work on the "world" of one transaction: its AuthRequestContext,
\* the host's transaction, the secondary connection and the attempt's history.
World(t) == [auth |-> auth[t], txn |-> txn[t], net |-> net[t], hist |-> hist[t]]

\* What a handler hands back to dispatch: the world it left, the event it
\* returns, and the notification the host delivered inside it, if any.
R(w, rv) == [w |-> w, rv |-> rv, nest |-> <<>>]

\* One activation of AuthRequestContext::dispatch.  While a nested dispatch
\* runs, an activation waits in its handler (pc = "ret") with the event the
\* handler will return (rv); left is the table in which it found its
\* transition.
Frame(t, event, edata) ==
    [t |-> t, event |-> event, edata |-> edata, pc |-> "pump", rv |-> "NONE",
     left |-> "NULL"]

\* TSHttpTxnReenable: the transaction leaves the hook it is blocked at.
TSHttpTxnReenable(w, event) ==
    LET at   == w.txn.at
        next == CASE at = "os_dns" /\ event = "HTTP_CONTINUE" ->
                        IF w.txn.hooksLeft > 0 THEN "os_dns_ready" ELSE "proceed"
                  [] at = "os_dns" /\ event = "HTTP_ERROR" ->
                        IF w.txn.sendHook THEN "send_response_ready" ELSE "responded"
                  [] at = "send_response" -> "responded"
                  [] OTHER -> at
    IN  [w EXCEPT !.txn.at = next,
                  !.hist.reenabled = Append(@, [hook |-> at, event |-> event]),
                  !.hist.resumedOpen = @ \/ (at = "os_dns" /\ w.net.open),
                  !.hist.resumedIgnoreAuth = IF at = "os_dns" THEN w.txn.ignoreAuth ELSE @]

\* TSVConnClose: the connection is released and its pending operation dropped.
TSVConnClose(w) ==
    [w EXCEPT !.net.open = FALSE, !.net.pending = "none", !.hist.closes = @ + 1]

\* TSHttpConnect returning a connection.
TSHttpConnect(w) ==
    [w EXCEPT !.auth.vconn = "vc", !.net.open = TRUE, !.hist.opens = @ + 1]

\* TSVConnWrite: a write is outstanding on the connection.
TSVConnWrite(w) == [w EXCEPT !.net.pending = "write"]

\* TSVConnRead: a read is outstanding on the connection.
TSVConnRead(w) == [w EXCEPT !.net.pending = "read"]

\* TSHttpHdrParseResp on the bytes of the buffer: what it returns, how many
\* bytes it consumed, and how far the parser now is in the header block.
TSHttpHdrParseResp(parsed, buf, resp) ==
    LET left == HdrLen - parsed
        k    == IF Len(buf) < left THEN Len(buf) ELSE left
    IN  IF resp.malformed
        THEN [result |-> "TS_PARSE_ERROR", consumed |-> 0, parsed |-> parsed]
        ELSE [result |-> IF parsed + k = HdrLen THEN "TS_PARSE_DONE" ELSE "TS_PARSE_CONT",
              consumed |-> k, parsed |-> parsed + k]

\* The serialized secondary request in the write buffer.
RequestBytes == << 0 - 1 >>

\* --------------------------------------------------------------- handlers
\* AuthRequestContext::options preferring the global options to the tag's.
OptionsPrefersGlobal(w) ==
    IF AuthGlobalOptions # NullOptions THEN AuthGlobalOptions ELSE w.txn.tag

\* AuthRequestContext::options: the tag's options when the transaction is
\* tagged, the global options otherwise.
Options(w) == IF w.txn.tag # NullOptions THEN w.txn.tag ELSE AuthGlobalOptions

\* The client request's method, as every read of it finds it.
ClientMethod(x, in) == IF x.method = "unread" THEN in.method ELSE x.method

\* AuthRequestIsHead: the client request's method is HEAD.
AuthRequestIsHead(x, in) == ClientMethod(x, in) = "HEAD"

\* HttpGetOriginHost: whether the client request names an origin host, as
\* every read of it finds it.
HttpGetOriginHost(x, in) == IF x.originHost = "unread" THEN in.host ELSE x.originHost

\* AuthChainAuthorizationResponse without "auth->vconn = NULL" after the close.
AuthChainKeepsVconn(w) ==
    LET w1 == IF w.auth.vconn # "NULL" THEN TSVConnClose(w) ELSE w
        w2 == [w1 EXCEPT !.txn.sendHook = TRUE]
    IN  TSHttpTxnReenable(w2, "HTTP_ERROR")

\* AuthChainAuthorizationResponse calling TSHttpTxnHookAdd after
\* TSHttpTxnReenable.
AuthChainReenablesBeforeHook(w) ==
    LET w1 == IF w.auth.vconn # "NULL"
              THEN [TSVConnClose(w) EXCEPT !.auth.vconn = "NULL"]
              ELSE w
    IN  [TSHttpTxnReenable(w1, "HTTP_ERROR") EXCEPT !.txn.sendHook = TRUE]

\* AuthChainAuthorizationResponse: close the connection, hook the response
\* header, fail the transaction at the OS_DNS hook.
AuthChainAuthorizationResponse(w) ==
    LET w1 == IF w.auth.vconn # "NULL"
              THEN [TSVConnClose(w) EXCEPT !.auth.vconn = "NULL"]
              ELSE w
        w2 == [w1 EXCEPT !.txn.sendHook = TRUE]
    IN  TSHttpTxnReenable(w2, "HTTP_ERROR")

\* AuthWriteHeadRequest without "auth->read_body = false".
AuthWriteHeadRequestReadsBody(w) ==
    [ok |-> TRUE, w |-> [w EXCEPT !.auth.iobuf = @ \o RequestBytes]]

\* AuthWriteHeadRequest: serialize a HEAD request, never read a body.
AuthWriteHeadRequest(w) ==
    [ok |-> TRUE,
     w  |-> [w EXCEPT !.auth.iobuf = @ \o RequestBytes, !.auth.read_body = FALSE]]

\* AuthWriteRedirectedRequest: serialize the request for the auth proxy.
AuthWriteRedirectedRequest(w) ==
    [ok |-> TRUE, w |-> [w EXCEPT !.auth.iobuf = @ \o RequestBytes]]

\* options->transform(auth, &addr.sa)
Transform(w) ==
    IF OptTransform(Options(w)) = "AuthWriteHeadRequest"
    THEN AuthWriteHeadRequest(w)
    ELSE AuthWriteRedirectedRequest(w)

\* StateAuthProxyResolve without the TSActionDone test.
ResolveReturnsContinue(inline) == "CONTINUE"

\* What StateAuthProxyResolve returns once TSHostLookup is back: TS_EVENT_NONE
\* when the lookup ran in line (TSActionDone), TS_EVENT_CONTINUE otherwise.
ResolveReturn(inline) == IF inline THEN "NONE" ELSE "CONTINUE"

\* StateAuthProxyResolve.  in.inline: the host runs the lookup in line and
\* delivers HOST_LOOKUP (with in.dns) before TSHostLookup returns.
TSHostLookup(t, w, in) ==
    [w    |-> IF in.inline
              THEN [w EXCEPT !.hist.lookups = @ + 1, !.hist.inline = TRUE,
                             !.hist.dns = in.dns]
              ELSE [w EXCEPT !.net.pending = "lookup"],
     rv   |-> ResolveReturn(in.inline),
     nest |-> IF in.inline THEN << Frame(t, "HOST_LOOKUP", in.dns) >> ELSE << >>]

StateAuthProxyResolve(t, w, in) ==
    IF OptTransform(Options(w)) = "AuthWriteHeadRequest"
    THEN LET w1 == [w EXCEPT !.txn.originHost = HttpGetOriginHost(w.txn, in)]
         IN  IF w1.txn.originHost = "present"
             THEN TSHostLookup(t, w1, in)
             ELSE R(w1, "ERROR")
    ELSE TSHostLookup(t, w, in)

\* StateAuthProxyConnect line 474, TSVConnWrite and the return that follows
\* it.  in.syncWrite: the host notifies the write before TSVConnWrite returns.
WriteStarted(t, w, in) ==
    IF in.syncWrite = "no"
    THEN R(TSVConnWrite(w), "CONTINUE")
    ELSE [w    |-> w,
          rv   |-> "CONTINUE",
          nest |-> << Frame(t, in.syncWrite, "vio") >>]

\* StateAuthProxyConnect without the test for a NULL lookup result.
ConnectIgnoresNullResult(t, w, edata, in) ==
    LET w1 == [w EXCEPT !.txn.method = ClientMethod(w.txn, in),
                        !.auth.is_head = AuthRequestIsHead(w.txn, in)]
    IN  IF ~in.connectOk
        THEN R([w1 EXCEPT !.auth.vconn = "NULL"], "ERROR")
        ELSE LET tr == Transform(TSHttpConnect(w1))
             IN  IF ~tr.ok THEN R(tr.w, "ERROR")
                 ELSE WriteStarted(t, tr.w, in)

\* StateAuthProxyConnect.  in.connectOk: TSHttpConnect returns a connection.
StateAuthProxyConnect(t, w, edata, in) ==
    IF edata = "NULL"
    THEN R(w, "ERROR")
    ELSE LET w1 == [w EXCEPT !.txn.method = ClientMethod(w.txn, in),
                             !.auth.is_head = AuthRequestIsHead(w.txn, in)]
         IN  IF ~in.connectOk
             THEN R([w1 EXCEPT !.auth.vconn = "NULL"], "ERROR")
             ELSE LET tr == Transform(TSHttpConnect(w1))
                  IN  IF ~tr.ok THEN R(tr.w, "ERROR")
                      ELSE WriteStarted(t, tr.w, in)

\* n more bytes of the secondary server's answer reach the attempt's buffer.
BytesArrive(w, n, resp) ==
    [w EXCEPT !.auth.iobuf = @ \o StreamBytes(w.net.sent, n),
              !.net.sent = @ + n, !.net.resp = resp]

\* StateAuthProxyWriteComplete line 612, TSVConnRead and the return that
\* follows it.  in.syncRead: the host notifies the read before TSVConnRead
\* returns (bytes are there already, or the connection is gone).
ReadStarted(t, w, in) ==
    IF in.syncRead = "no"
    THEN R(TSVConnRead(w), "CONTINUE")
    ELSE [w    |-> IF in.syncRead = "VCONN_READ_READY"
                   THEN BytesArrive(TSVConnRead(w), in.n, in.resp)
                   ELSE w,
          rv   |-> "CONTINUE",
          nest |-> << Frame(t, in.syncRead, "vio") >>]

\* StateAuthProxyWriteComplete: reset the buffer and start reading.
StateAuthProxyWriteComplete(t, w, in) ==
    ReadStarted(t, [w EXCEPT !.auth.iobuf = << >>], in)

\* StateAuthProxyReadHeaders without the TSIOBufferReaderConsume call: the
\* header bytes stay in the buffer.
ReadHeadersKeepsHeaderBytes(w) ==
    IF w.auth.iobuf = << >>
    THEN R(w, "CONTINUE")
    ELSE LET unseen == SubSeq(w.auth.iobuf, w.auth.parsed + 1, Len(w.auth.iobuf))
             p      == TSHttpHdrParseResp(w.auth.parsed, unseen, w.net.resp)
         IN  IF p.result = "TS_PARSE_ERROR"
             THEN R(w, "ERROR")
             ELSE LET complete == p.result \in {"TS_PARSE_DONE", "TS_PARSE_OK"}
                      w1 == [w EXCEPT
                               !.auth.parsed  = p.parsed,
                               !.auth.rheader = IF complete THEN w.net.resp.header ELSE @]
                  IN  R(w1, IF complete THEN "HTTP_READ_REQUEST_HDR" ELSE "CONTINUE")

\* StateAuthProxyReadHeaders treating TS_PARSE_ERROR as "more data needed".
ReadHeadersIgnoresParseError(w) ==
    IF w.auth.iobuf = << >>
    THEN R(w, "CONTINUE")
    ELSE LET p == TSHttpHdrParseResp(w.auth.parsed, w.auth.iobuf, w.net.resp)
         IN  IF p.result = "TS_PARSE_ERROR"
             THEN R(w, "CONTINUE")
             ELSE LET complete == p.result \in {"TS_PARSE_DONE", "TS_PARSE_OK"}
                      w1 == [w EXCEPT
                               !.auth.parsed  = p.parsed,
                               !.auth.iobuf   = SubSeq(@, p.consumed + 1, Len(@)),
                               !.auth.rheader = IF complete THEN w.net.resp.header ELSE @]
                  IN  R(w1, IF complete THEN "HTTP_READ_REQUEST_HDR" ELSE "CONTINUE")

\* StateAuthProxyReadHeaders: feed the buffered bytes to the parser and consume
\* what it parsed.
StateAuthProxyReadHeaders(w) ==
    IF w.auth.iobuf = << >>
    THEN R(w, "CONTINUE")
    ELSE LET p == TSHttpHdrParseResp(w.auth.parsed, w.auth.iobuf, w.net.resp)
         IN  IF p.result = "TS_PARSE_ERROR"
             THEN R(w, "ERROR")
             ELSE LET complete == p.result \in {"TS_PARSE_DONE", "TS_PARSE_OK"}
                      w1 == [w EXCEPT
                               !.auth.parsed  = p.parsed,
                               !.auth.iobuf   = SubSeq(@, p.consumed + 1, Len(@)),
                               !.auth.rheader = IF complete THEN w.net.resp.header ELSE @]
                  IN  R(w1, IF complete THEN "HTTP_READ_REQUEST_HDR" ELSE "CONTINUE")

\* Line 490 without its lower bound.
IsAuthorizedStatusNoLowerBound(status) == status < 300

\* Line 490 with its upper bound one too low.
IsAuthorizedStatusBelow299(status) == status >= 200 /\ status < 299

\* StateAuthProxyCompleteHeaders line 490: a 2xx status authorizes.
IsAuthorizedStatus(status) == status >= 200 /\ status < 300

\* Lines 494-508 without the test for chunked encoding.
ShouldReadBodyIgnoresChunked(a) ==
    /\ a.read_body
    /\ HttpGetContentLength(a.rheader) > 0

\* Lines 494-508 reading the body whenever a length is known, zero included.
ShouldReadBodyOnZeroLength(a) ==
    /\ a.read_body
    /\ ~HttpIsChunkedEncoding(a.rheader)
    /\ HttpGetContentLength(a.rheader) >= 0

\* StateAuthProxyCompleteHeaders lines 494-508: the body is worth reading.
ShouldReadBody(a) ==
    /\ a.read_body
    /\ ~HttpIsChunkedEncoding(a.rheader)
    /\ HttpGetContentLength(a.rheader) > 0

\* StateAuthProxyCompleteHeaders
StateAuthProxyCompleteHeaders(w) ==
    IF IsAuthorizedStatus(w.auth.rheader.status)
    THEN R(w, "IMMEDIATE")
    ELSE IF ShouldReadBody(w.auth)
         THEN R(w, "HTTP_CONTINUE")
         ELSE R(AuthChainAuthorizationResponse(w), "HTTP_SEND_RESPONSE_HDR")

\* StateAuthProxySendResponse: copy the auth proxy's header to the client
\* response, set the error body to "<status> <reason>\n", zero the content
\* length unless the client sent HEAD, resume the transaction.
StateAuthProxySendResponse(w) ==
    LET copied == w.auth.rheader
        status == copied.status
        resp   == IF ~w.auth.is_head THEN [copied EXCEPT !.clen = 0] ELSE copied
        w1     == [w EXCEPT !.txn.clientResp = resp,
                            !.txn.errorBody  = StatusReasonBody(status)]
    IN  R(TSHttpTxnReenable(w1, "HTTP_CONTINUE"), "CONTINUE")

\* The test of StateAuthProxyReadContent and StateAuthProxyCompleteContent:
\* the buffer holds the declared content length.
HaveContent(a) == Len(a.iobuf) >= HttpGetContentLength(a.rheader)

\* StateAuthProxyReadContent
StateAuthProxyReadContent(w) ==
    IF HaveContent(w.auth)
    THEN R(AuthChainAuthorizationResponse(w), "HTTP_SEND_RESPONSE_HDR")
    ELSE R(w, "CONTINUE")

\* StateAuthProxyCompleteContent returning TS_EVENT_IMMEDIATE on a short body.
CompleteContentAuthorizesShort(w) ==
    IF HaveContent(w.auth)
    THEN R(AuthChainAuthorizationResponse(w), "HTTP_SEND_RESPONSE_HDR")
    ELSE R(w, "IMMEDIATE")

\* StateAuthProxyCompleteContent chaining the response on a short body as well,
\* before it returns TS_EVENT_ERROR.
CompleteContentChainsThenFails(w) ==
    IF HaveContent(w.auth)
    THEN R(AuthChainAuthorizationResponse(w), "HTTP_SEND_RESPONSE_HDR")
    ELSE R(AuthChainAuthorizationResponse(w), "ERROR")

\* StateAuthProxyCompleteContent
StateAuthProxyCompleteContent(w) ==
    IF HaveContent(w.auth)
    THEN R(AuthChainAuthorizationResponse(w), "HTTP_SEND_RESPONSE_HDR")
    ELSE R(w, "ERROR")

\* StateUnauthorized: force a 403 Forbidden response.
StateUnauthorized(w) ==
    LET w1 == [w EXCEPT !.txn.retStatus = TS_HTTP_STATUS_FORBIDDEN,
                        !.txn.errorBody = ForbiddenBody]
    IN  R(TSHttpTxnReenable(w1, "HTTP_ERROR"), "CONTINUE")

\* StateAuthorized returning TS_EVENT_IMMEDIATE instead of TS_EVENT_CONTINUE.
StateAuthorizedPumpsOn(w) ==
    LET w1 == IF OptForce(Options(w)) THEN [w EXCEPT !.txn.ignoreAuth = TRUE] ELSE w
    IN  R(TSHttpTxnReenable(w1, "HTTP_CONTINUE"), "IMMEDIATE")

\* StateAuthorized calling TSHttpTxnConfigIntSet after TSHttpTxnReenable.
StateAuthorizedReenablesFirst(w) ==
    LET w1 == TSHttpTxnReenable(w, "HTTP_CONTINUE")
    IN  R(IF OptForce(Options(w)) THEN [w1 EXCEPT !.txn.ignoreAuth = TRUE] ELSE w1,
          "CONTINUE")

\* StateAuthorized: let the original request proceed.
StateAuthorized(w) ==
    LET w1 == IF OptForce(Options(w)) THEN [w EXCEPT !.txn.ignoreAuth = TRUE] ELSE w
    IN  R(TSHttpTxnReenable(w1, "HTTP_CONTINUE"), "CONTINUE")

\* StateContinue: the trampoline between tables.
StateContinue(w) == R(w, "CONTINUE")

\* What the host decides while a handler runs.
NoInput == [inline |-> FALSE, dns |-> "NULL", connectOk |-> FALSE, stale |-> TRUE,
            method |-> "GET", host |-> "present", syncWrite |-> "no",
            syncRead |-> "no", n |-> 0, resp |-> NoResponse, syncSend |-> FALSE]

InputsOf(handler) ==
    CASE handler = "StateAuthProxyResolve" ->
            {[NoInput EXCEPT !.inline = i, !.dns = d, !.host = h] :
                 i \in BOOLEAN, d \in {"NULL", "addr"}, h \in {"present", "missing"}}
      [] handler = "StateAuthProxyConnect" ->
            {[NoInput EXCEPT !.connectOk = c, !.method = m] :
                 c \in BOOLEAN, m \in {"GET", "HEAD"}}
      [] OTHER -> {NoInput}

\* The same decisions when the host may also notify a write or a read inside
\* the call that starts it.
SyncInputsOf(handler) ==
    CASE handler = "StateAuthProxyConnect" ->
            {[in EXCEPT !.syncWrite = s] :
                 in \in InputsOf(handler), s \in {"no", "VCONN_WRITE_COMPLETE", "ERROR"}}
      [] handler = "StateAuthProxyWriteComplete" ->
            {NoInput}
            \cup {[NoInput EXCEPT !.syncRead = s] : s \in {"VCONN_EOS", "ERROR"}}
            \cup UNION {{[NoInput EXCEPT !.syncRead = "VCONN_READ_READY", !.n = n,
                                         !.resp = r] :
                            r \in Answers(NoResponse, n >= HdrLen)} :
                        n \in 1..(HdrLen + MaxBody)}
      [] OTHER -> InputsOf(handler)

\* The same decisions when the host may also call the send-response hook
\* inside the TSHttpTxnReenable of AuthChainAuthorizationResponse, which the
\* handlers of the read tables reach.
ReentrantInputsOf(handler) ==
    IF handler \in {"StateAuthProxyReadHeaders", "StateAuthProxyReadContent",
                    "StateAuthProxyCompleteContent"}
    THEN {[NoInput EXCEPT !.syncSend = b] : b \in BOOLEAN}
    ELSE InputsOf(handler)

\* s->handler(auth, edata)
Handler(name, t, w, edata, in) ==
    CASE name = "StateAuthProxyResolve"         -> StateAuthProxyResolve(t, w, in)
      [] name = "StateAuthProxyConnect"         -> StateAuthProxyConnect(t, w, edata, in)
      [] name = "StateAuthProxyWriteComplete"   -> StateAuthProxyWriteComplete(t, w, in)
      [] name = "StateAuthProxyReadHeaders"     -> StateAuthProxyReadHeaders(w)
      [] name = "StateAuthProxyCompleteHeaders" -> StateAuthProxyCompleteHeaders(w)
      [] name = "StateAuthProxyReadContent"     -> StateAuthProxyReadContent(w)
      [] name = "StateAuthProxyCompleteContent" -> StateAuthProxyCompleteContent(w)
      [] name = "StateAuthProxySendResponse"    -> StateAuthProxySendResponse(w)
      [] name = "StateUnauthorized"             -> StateUnauthorized(w)
      [] name = "StateAuthorized"               -> StateAuthorized(w)
      [] name = "StateContinue"                 -> StateContinue(w)

\* --------------------------------------------------------------- dispatch
Top == stack[Len(stack)]

Pop == SubSeq(stack, 1, Len(stack) - 1)

\* The attempts sharing one secondary connection: what transaction t does to
\* its connection shows on every transaction's connection.
SetWorldSharedConnection(t, w) ==
    /\ auth' = [auth EXCEPT ![t] = w.auth]
    /\ txn'  = [txn  EXCEPT ![t] = w.txn]
    /\ net'  = [u \in Txns |-> w.net]
    /\ hist' = [hist EXCEPT ![t] = w.hist]

\* The world of transaction t becomes w; the other transactions keep theirs.
SetWorld(t, w) ==
    /\ auth' = [auth EXCEPT ![t] = w.auth]
    /\ txn'  = [txn  EXCEPT ![t] = w.txn]
    /\ net'  = [net  EXCEPT ![t] = w.net]
    /\ hist' = [hist EXCEPT ![t] = w.hist]

\* AuthRequestContext::allocate and the two assignments of AuthProxyGlobalHook.
Allocate == [NoAuth EXCEPT !.alive = TRUE, !.state = "StateTableInit"]

\* AuthRequestContext::destroy: the destructor closes the connection when the
\* vconn field is set, and the memory is freed (its fields stay as they were).
Destroy(w) ==
    LET w1 == IF w.auth.vconn # "NULL" THEN TSVConnClose(w) ELSE w
    IN  [w1 EXCEPT !.auth.alive = FALSE, !.hist.destroys = @ + 1]

\* What one run of dispatch leaves: the world, the frames that replace the
\* running one (none when dispatch returned), and whether the process died.
Ran(w, frames, how) == [w |-> w, frames |-> frames, aborted |-> how]

\* dispatch moving the state pointer only after the handler has returned: the
\* pointer still names the table being left while the handler runs.
EnterKeepsState(w, s) ==
    [w EXCEPT !.hist.ran = @ \cup {s.handler},
              !.hist.entered = @ \cup {s.next},
              !.hist.connects = IF s.handler = "StateAuthProxyConnect" THEN @ + 1 ELSE @]

\* The handler is about to run: the state pointer already names the next table.
Enter(w, s) ==
    [w EXCEPT !.auth.state = s.next,
              !.hist.back = @ \/ Rank(s.next) < Rank(w.auth.state),
              !.hist.ran = @ \cup {s.handler},
              !.hist.entered = @ \cup {s.next},
              !.hist.connects = IF s.handler = "StateAuthProxyConnect" THEN @ + 1 ELSE @]

\* AuthChainAuthorizationResponse line 285 when the host runs the send-response
\* hook before TSHttpTxnReenable returns (in.syncSend): the handler that
\* chained (before: the world it started in, r: what it hands back) returns
\* only after the nested dispatch of HTTP_SEND_RESPONSE_HDR.
HookInside(t, before, r, in) ==
    IF in.syncSend /\ before.txn.at = "os_dns" /\ r.w.txn.at = "send_response_ready"
    THEN [w    |-> [r.w EXCEPT !.txn.at = "send_response", !.hist.sendInline = TRUE],
          rv   |-> r.rv,
          nest |-> << Frame(t, "HTTP_SEND_RESPONSE_HDR", "txn") >>]
    ELSE r

RECURSIVE Pump(_, _, _, _)
RECURSIVE AfterHandler(_, _, _, _, _)

\* dispatch from the pump label: find the transition, assert it has a handler,
\* move the state pointer, call the handler.  A notification the host delivers
\* inside the handler is a nested dispatch, which runs before this one goes on.
Pump(t, w, frame, in) ==
    IF ~w.auth.alive
    THEN Ran([w EXCEPT !.hist.uaf = TRUE], << frame >>, "use after free")
    ELSE IF w.auth.state = "NULL"
    THEN Ran(w, << frame >>, "null state table")
    ELSE LET s == FindTransition(w.auth.state, frame.event)
         IN  IF s.handler = "NULL"
             THEN Ran(w, << frame >>, "TSReleaseAssert")
             ELSE LET r == HookInside(t, w, Handler(s.handler, t, Enter(w, s),
                                                    frame.edata, in), in)
                  IN  IF r.nest # << >>
                      THEN Ran(r.w, << [frame EXCEPT !.pc = "ret", !.rv = r.rv,
                                                     !.left = w.auth.state] >> \o r.nest,
                               "no")
                      ELSE AfterHandler(t, r.w, frame, r.rv, in)

\* dispatch after the handler returned event rv: stop on TS_EVENT_NONE;
\* otherwise destroy the attempt when its state pointer is NULL, then pump the
\* returned event, or return to the caller on TS_EVENT_CONTINUE.  Reading the
\* state pointer of a destroyed attempt reads freed memory: the process dies or
\* goes on with what the memory held (in.stale).
AfterHandler(t, w, frame, rv, in) ==
    IF rv = "NONE"
    THEN Ran(w, << >>, "no")
    ELSE IF ~w.auth.alive /\ ~in.stale
    THEN Ran([w EXCEPT !.hist.uaf = TRUE], << frame >>, "use after free")
    ELSE LET w1 == IF w.auth.alive THEN w ELSE [w EXCEPT !.hist.uaf = TRUE]
             w2 == IF w1.auth.state = "NULL" THEN Destroy(w1) ELSE w1
         IN  IF rv = "CONTINUE"
             THEN Ran(w2, << >>, "no")
             ELSE Pump(t, w2, [frame EXCEPT !.pc = "pump", !.event = rv], in)

\* The frames and the world after a run of the top frame.
Finish(t, r) ==
    /\ SetWorld(t, r.w)
    /\ stack' = Pop \o r.frames
    /\ aborted' = r.aborted
    /\ UNCHANGED <<AuthGlobalOptions, parse>>

\* A call of AuthRequestContext::dispatch runs, up to its return or up to the
\* point where the host delivers a notification inside a handler.
DispatchWith(mode) ==
    /\ aborted = "no"
    /\ stack # << >>
    /\ Top.pc = "pump"
    /\ LET handler == FindTransition(auth[Top.t].state, Top.event).handler
       IN  \E in \in CASE mode = "sync"      -> SyncInputsOf(handler)
                        [] mode = "reentrant" -> ReentrantInputsOf(handler)
                        [] OTHER              -> InputsOf(handler) :
              Finish(Top.t, Pump(Top.t, World(Top.t), Top, in))

Dispatch == DispatchWith("async")

\* dispatch when the host may complete a write or a read inside the handler
\* that starts it.
DispatchSync == DispatchWith("sync")

\* dispatch when the host may call the send-response hook inside the
\* TSHttpTxnReenable that fails the transaction.
DispatchReentrant == DispatchWith("reentrant")

\* The nested dispatch has returned: the handler that caused it returns its
\* event to the outer dispatch, which goes on from there.
DispatchResume ==
    /\ aborted = "no"
    /\ stack # << >>
    /\ Top.pc = "ret"
    /\ \E in \in {[NoInput EXCEPT !.stale = b] : b \in BOOLEAN} :
          Finish(Top.t, AfterHandler(Top.t, World(Top.t), Top, Top.rv, in))

\* ------------------------------------------------------- the host's events
\* The host's event loop runs a callback only when no callback is running.
Idle == aborted = "no" /\ stack = << >>

\* AuthProxyGlobalHook for TS_EVENT_HTTP_OS_DNS on transaction t.
AuthRequestIsTagged(x) == x.tag # NullOptions

\* AuthProxyGlobalHook without the TSHttpIsInternalRequest branch.
AuthProxyGlobalHookHooksInternal(t) ==
    /\ Idle
    /\ txn[t].at = "os_dns_ready"
    /\ txn[t].hooksLeft > 0
    /\ LET x == [txn[t] EXCEPT !.at = "os_dns", !.hooksLeft = @ - 1]
           w == [World(t) EXCEPT !.txn = x]
       IN  IF AuthGlobalOptions # NullOptions \/ AuthRequestIsTagged(x)
           THEN /\ SetWorld(t, [w EXCEPT !.auth = Allocate, !.net = NoNet,
                                         !.hist = [NoHist EXCEPT !.attempts =
                                                       w.hist.attempts + 1]])
                /\ stack' = << Frame(t, "HTTP_OS_DNS", "txn") >>
                /\ UNCHANGED <<AuthGlobalOptions, parse, aborted>>
           ELSE /\ SetWorld(t, w)
                /\ UNCHANGED <<AuthGlobalOptions, parse, stack, aborted>>

AuthProxyGlobalHook(t) ==
    /\ Idle
    /\ txn[t].at = "os_dns_ready"
    /\ txn[t].hooksLeft > 0
    /\ LET x == [txn[t] EXCEPT !.at = "os_dns", !.hooksLeft = @ - 1]
           w == [World(t) EXCEPT !.txn = x]
       IN  IF x.internal
           THEN /\ SetWorld(t, TSHttpTxnReenable([w EXCEPT !.txn.cacheable = FALSE],
                                                 "HTTP_CONTINUE"))
                /\ UNCHANGED <<AuthGlobalOptions, parse, stack, aborted>>
           ELSE IF AuthGlobalOptions # NullOptions \/ AuthRequestIsTagged(x)
           THEN /\ SetWorld(t, [w EXCEPT !.auth = Allocate, !.net = NoNet,
                                         !.hist = [NoHist EXCEPT !.attempts =
                                                       w.hist.attempts + 1]])
                /\ stack' = << Frame(t, "HTTP_OS_DNS", "txn") >>
                /\ UNCHANGED <<AuthGlobalOptions, parse, aborted>>
           ELSE /\ SetWorld(t, w)
                /\ UNCHANGED <<AuthGlobalOptions, parse, stack, aborted>>

\* The resolver delivers HOST_LOOKUP later, with a result or with NULL.
DeliverHostLookup(t, dns) ==
    /\ Idle
    /\ auth[t].alive
    /\ net[t].pending = "lookup"
    /\ net' = [net EXCEPT ![t].pending = "none"]
    /\ hist' = [hist EXCEPT ![t].lookups = @ + 1, ![t].dns = dns]
    /\ stack' = << Frame(t, "HOST_LOOKUP", dns) >>
    /\ UNCHANGED <<AuthGlobalOptions, parse, txn, auth, aborted>>

\* The write of the secondary request completes.
DeliverWriteComplete(t) ==
    /\ Idle
    /\ auth[t].alive
    /\ net[t].pending = "write"
    /\ net' = [net EXCEPT ![t].pending = "none"]
    /\ stack' = << Frame(t, "VCONN_WRITE_COMPLETE", "vio") >>
    /\ UNCHANGED <<AuthGlobalOptions, parse, txn, auth, hist, aborted>>

\* n more bytes of the answer arrive in the attempt's buffer and the host
\* notifies the read (READ_READY or READ_COMPLETE).
DeliverRead(t, event) ==
    /\ Idle
    /\ auth[t].alive
    /\ net[t].pending = "read"
    /\ \E n \in 1..(HdrLen + MaxBody - net[t].sent) :
       \E resp \in Answers(net[t].resp, net[t].sent + n >= HdrLen) :
          /\ auth' = [auth EXCEPT ![t].iobuf = @ \o StreamBytes(net[t].sent, n)]
          /\ net' = [net EXCEPT ![t].sent = @ + n, ![t].resp = resp]
    /\ stack' = << Frame(t, event, "vio") >>
    /\ UNCHANGED <<AuthGlobalOptions, parse, txn, hist, aborted>>

\* The secondary server closes the connection while a read is outstanding.
DeliverEos(t) ==
    /\ Idle
    /\ auth[t].alive
    /\ net[t].pending = "read"
    /\ net' = [net EXCEPT ![t].pending = "none"]
    /\ stack' = << Frame(t, "VCONN_EOS", "vio") >>
    /\ UNCHANGED <<AuthGlobalOptions, parse, txn, auth, hist, aborted>>

\* The outstanding write or read fails.
DeliverError(t) ==
    /\ Idle
    /\ auth[t].alive
    /\ net[t].pending \in {"write", "read"}
    /\ net' = [net EXCEPT ![t].pending = "none"]
    /\ stack' = << Frame(t, "ERROR", "vio") >>
    /\ UNCHANGED <<AuthGlobalOptions, parse, txn, auth, hist, aborted>>

\* The host calls the send-response hook AuthChainAuthorizationResponse added.
DeliverSendResponseHdr(t) ==
    /\ Idle
    /\ auth[t].alive
    /\ txn[t].at = "send_response_ready"
    /\ txn' = [txn EXCEPT ![t].at = "send_response"]
    /\ stack' = << Frame(t, "HTTP_SEND_RESPONSE_HDR", "txn") >>
    /\ UNCHANGED <<AuthGlobalOptions, parse, auth, net, hist, aborted>>

Next ==
    \/ Dispatch
    \/ DispatchResume
    \/ \E t \in Txns : AuthProxyGlobalHook(t)
    \/ \E t \in Txns, dns \in {"NULL", "addr"} : DeliverHostLookup(t, dns)
    \/ \E t \in Txns : DeliverWriteComplete(t)
    \/ \E t \in Txns, event \in {"VCONN_READ_READY", "VCONN_READ_COMPLETE"} :
          DeliverRead(t, event)
    \/ \E t \in Txns : DeliverEos(t)
    \/ \E t \in Txns : DeliverError(t)
    \/ \E t \in Txns : DeliverSendResponseHdr(t)

Spec == Init /\ [][Next]_vars

\* Two transactions reach the OS_DNS hook together, in global mode with the
\* redirect transform; a remap rule may have tagged either for the HEAD
\* transform.
InitPair ==
    /\ AuthGlobalOptions = 1
    /\ \E in \in [{1, 2} -> [internal : {FALSE}, tag : {NullOptions, 3}]] :
          txn = [t \in Txns |-> IF t \in {1, 2} THEN NewTxn(AuthGlobalOptions, in[t])
                                ELSE NoTxn]
    /\ auth = [t \in Txns |-> NoAuth]
    /\ net = [t \in Txns |-> NoNet]
    /\ hist = [t \in Txns |-> NoHist]
    /\ stack = <<>>
    /\ aborted = "no"
    /\ parse = NoParse

\* The answers of a secondary server that authorizes with 200 or denies with
\* 403, with or without a body of MaxClen bytes, or sends no HTTP at all.
PairAnswers ==
    {r \in Responses : \/ r.malformed
                        \/ /\ r.header.status \in {200, 403}
                           /\ ~r.header.chunked
                           /\ r.header.clen \in {NoClen, MaxClen}}

\* The whole answer of the secondary server, header block and declared body,
\* arrives at once and the host notifies the read.
DeliverAnswer(t, resp) ==
    /\ Idle
    /\ auth[t].alive
    /\ net[t].pending = "read"
    /\ net[t].sent = 0
    /\ LET n == HdrLen + HttpGetContentLength(resp.header)
       IN  /\ auth' = [auth EXCEPT ![t].iobuf = @ \o StreamBytes(0, n)]
           /\ net' = [net EXCEPT ![t].sent = n, ![t].resp = resp]
    /\ stack' = << Frame(t, "VCONN_READ_READY", "vio") >>
    /\ UNCHANGED <<AuthGlobalOptions, parse, txn, hist, aborted>>

\* The plugin with two attempts in flight whose notifications interleave.
NextPair ==
    \/ Dispatch
    \/ DispatchResume
    \/ \E t \in Txns : AuthProxyGlobalHook(t)
    \/ \E t \in Txns, dns \in {"NULL", "addr"} : DeliverHostLookup(t, dns)
    \/ \E t \in Txns : DeliverWriteComplete(t)
    \/ \E t \in Txns, resp \in PairAnswers : DeliverAnswer(t, resp)
    \/ \E t \in Txns : DeliverEos(t)
    \/ \E t \in Txns : DeliverError(t)
    \/ \E t \in Txns : DeliverSendResponseHdr(t)

SpecPair == InitPair /\ [][NextPair]_vars

\* AuthParseOptions is called with a command line.
InitParse ==
    /\ AuthGlobalOptions = NullOptions
    /\ txn = [t \in Txns |-> NoTxn]
    /\ auth = [t \in Txns |-> NoAuth]
    /\ net = [t \in Txns |-> NoNet]
    /\ hist = [t \in Txns |-> NoHist]
    /\ stack = <<>>
    /\ aborted = "no"
    /\ \E argv \in ArgvUpTo(MaxArgs) : parse = [NoParse EXCEPT !.argv = argv]

\* getopt_long returns the next option and the switch handles it.
AuthParseOptionsNext ==
    /\ ~parse.returned
    /\ parse.optind < Len(parse.argv)
    /\ LET r == ParseOption(parse.options, parse.errors, parse.argv[parse.optind + 1])
       IN  parse' = [parse EXCEPT !.optind = @ + 1, !.options = r.options,
                                  !.errors = r.errors]
    /\ UNCHANGED <<AuthGlobalOptions, txn, auth, net, hist, stack, aborted>>

\* getopt_long returns -1: the loop ends and AuthParseOptions returns options.
AuthParseOptionsReturn ==
    /\ ~parse.returned
    /\ parse.optind = Len(parse.argv)
    /\ parse' = [parse EXCEPT !.returned = TRUE]
    /\ UNCHANGED <<AuthGlobalOptions, txn, auth, net, hist, stack, aborted>>

NextParse == AuthParseOptionsNext \/ AuthParseOptionsReturn

SpecParse == InitParse /\ [][NextParse]_vars

\* The notifications a connection can send to its continuation.
VConnEvents == {"VCONN_READ_READY", "VCONN_READ_COMPLETE", "VCONN_WRITE_READY",
                "VCONN_WRITE_COMPLETE", "VCONN_EOS", "ERROR"}

\* The secondary connection notifies the attempt with any of its events,
\* whatever the attempt is waiting for (the peer closes during the write, a
\* write reports progress, a notification comes twice).
DeliverVConnEvent(t, event) ==
    /\ Idle
    /\ auth[t].alive
    /\ net[t].open
    /\ net' = [net EXCEPT ![t].pending = IF event \in {"VCONN_EOS", "ERROR"}
                                         THEN "none" ELSE @]
    /\ stack' = << Frame(t, event, "vio") >>
    /\ UNCHANGED <<AuthGlobalOptions, parse, txn, auth, hist, aborted>>

\* The plugin under a host whose connections may send any notification.
NextStray ==
    \/ Dispatch
    \/ DispatchResume
    \/ \E t \in Txns : AuthProxyGlobalHook(t)
    \/ \E t \in Txns, dns \in {"NULL", "addr"} : DeliverHostLookup(t, dns)
    \/ \E t \in Txns : DeliverWriteComplete(t)
    \/ \E t \in Txns, event \in {"VCONN_READ_READY", "VCONN_READ_COMPLETE"} :
          DeliverRead(t, event)
    \/ \E t \in Txns : DeliverEos(t)
    \/ \E t \in Txns : DeliverError(t)
    \/ \E t \in Txns : DeliverSendResponseHdr(t)
    \/ \E t \in Txns, event \in VConnEvents : DeliverVConnEvent(t, event)

SpecStray == Init /\ [][NextStray]_vars

\* The plugin under a host that may complete every transport operation inside
\* the call that starts it.
NextSync ==
    \/ DispatchSync
    \/ DispatchResume
    \/ \E t \in Txns : AuthProxyGlobalHook(t)
    \/ \E t \in Txns, dns \in {"NULL", "addr"} : DeliverHostLookup(t, dns)
    \/ \E t \in Txns : DeliverWriteComplete(t)
    \/ \E t \in Txns, event \in {"VCONN_READ_READY", "VCONN_READ_COMPLETE"} :
          DeliverRead(t, event)
    \/ \E t \in Txns : DeliverEos(t)
    \/ \E t \in Txns : DeliverError(t)
    \/ \E t \in Txns : DeliverSendResponseHdr(t)

SpecSync == Init /\ [][NextSync]_vars

\* The plugin under a host that may run the send-response hook inside the
\* TSHttpTxnReenable that fails the transaction at the OS_DNS hook.
NextReentrant ==
    \/ DispatchReentrant
    \/ DispatchResume
    \/ \E t \in Txns : AuthProxyGlobalHook(t)
    \/ \E t \in Txns, dns \in {"NULL", "addr"} : DeliverHostLookup(t, dns)
    \/ \E t \in Txns : DeliverWriteComplete(t)
    \/ \E t \in Txns, event \in {"VCONN_READ_READY", "VCONN_READ_COMPLETE"} :
          DeliverRead(t, event)
    \/ \E t \in Txns : DeliverEos(t)
    \/ \E t \in Txns : DeliverError(t)
    \/ \E t \in Txns : DeliverSendResponseHdr(t)

SpecReentrant == Init /\ [][NextReentrant]_vars

\* ------------------------------------------------------------- properties
\* Transaction t has an attempt (the hook allocated an AuthRequestContext).
Attempted(t) == hist[t].attempts > 0

\* The re-enables of the transaction at the OS_DNS hook by the current attempt.
OsDnsReenables(t) == SelectSeq(hist[t].reenabled, LAMBDA e : e.hook = "os_dns")

\* The attempt has parsed a complete response header.
HeadersComplete(t) == auth[t].parsed = HdrLen

\* The attempt has left the tables in which it talks to the secondary server.
Settled(t) == ~auth[t].alive \/ auth[t].state = "StateTableSendResponse"

Allowed == << [hook |-> "os_dns", event |-> "HTTP_CONTINUE"] >>

Refused == << [hook |-> "os_dns", event |-> "HTTP_ERROR"] >>

\* C1: every attempt re-enables the transaction blocked at the OS_DNS hook
\* exactly once: not before it settles, once when it has, with HTTP_CONTINUE
\* from StateAuthorized or with HTTP_ERROR from StateUnauthorized or
\* AuthChainAuthorizationResponse, never both and never twice; every other
\* re-enable is the one of the send-response hook.
C1_ReenabledExactlyOnce ==
    \A t \in Txns :
       Attempted(t) =>
          /\ aborted = "no"
          /\ \A i \in 1..Len(hist[t].reenabled) :
                hist[t].reenabled[i].hook \in {"os_dns", "send_response"}
          /\ IF Settled(t)
             THEN \/ /\ OsDnsReenables(t) = Allowed
                     /\ "StateAuthorized" \in hist[t].ran
                     /\ "StateUnauthorized" \notin hist[t].ran
                     /\ ~txn[t].sendHook
                  \/ /\ OsDnsReenables(t) = Refused
                     /\ "StateAuthorized" \notin hist[t].ran
                     /\ ("StateUnauthorized" \in hist[t].ran) # txn[t].sendHook
             ELSE OsDnsReenables(t) = << >>

\* C1 witness: an attempt refused through StateAuthProxyCompleteContent's error
\* path (EOS on a short body) has re-enabled the transaction once.
C1_Witness ==
    /\ ~auth[1].alive
    /\ {"StateAuthProxyCompleteContent", "StateUnauthorized"} \subseteq hist[1].ran
    /\ OsDnsReenables(1) = Refused

C3_FailClosed ==
    \A t \in Txns :
       (Attempted(t) /\ ("StateAuthorized" \in hist[t].ran \/ OsDnsReenables(t) = Allowed)) =>
          /\ hist[t].dns = "addr"
          /\ hist[t].opens = 1
          /\ HeadersComplete(t)
          /\ net[t].resp.chosen /\ ~net[t].resp.malformed
          /\ auth[t].rheader = net[t].resp.header
          /\ auth[t].rheader.status \in 200..299
          /\ hist[t].ran \cap {"StateUnauthorized", "StateAuthProxyCompleteContent",
                               "StateAuthProxyReadContent", "StateContinue"} = {}

\* C3 witness: an attempt authorized on a 299.
C3_Witness ==
    /\ "StateAuthorized" \in hist[1].ran
    /\ auth[1].rheader.status = 299
    /\ OsDnsReenables(1) = Allowed

\* C4: once the headers are complete with a 2xx status the attempt has ended
\* Authorized (StateAuthorized ran, HTTP_CONTINUE at the OS_DNS hook, attempt
\* destroyed), whatever read_body, chunked, Content-Length and the buffer hold.
C4_2xxAuthorizes ==
    \A t \in Txns :
       (Attempted(t) /\ HeadersComplete(t) /\ auth[t].rheader.status \in 200..299) =>
          /\ "StateAuthorized" \in hist[t].ran
          /\ OsDnsReenables(t) = Allowed
          /\ ~auth[t].alive
          /\ txn[t].retStatus = 0

\* C4 witness: authorized although the response is chunked, declares a
\* Content-Length, body bytes are buffered and read_body is set.
C4_Witness ==
    /\ HeadersComplete(1)
    /\ auth[1].rheader.status = 200
    /\ auth[1].rheader.chunked
    /\ auth[1].rheader.clen = MaxClen
    /\ Len(auth[1].iobuf) > 0
    /\ auth[1].read_body
    /\ "StateAuthorized" \in hist[1].ran

\* The attempt of t uses the HEAD-to-origin transform.
HeadTransform(t) == OptTransform(Options(World(t))) = "AuthWriteHeadRequest"

\* The attempt of t never had its state pointer on StateTableProxyReadContent.
NeverReadContent(t) ==
    /\ "StateTableProxyReadContent" \notin hist[t].entered
    /\ auth[t].state # "StateTableProxyReadContent"
    /\ hist[t].ran \cap {"StateAuthProxyReadContent", "StateAuthProxyCompleteContent"} = {}

\* C5: a non-2xx, non-chunked response with Content-Length n > 0 whose n body
\* bytes were all read in ReadingBody ends Denied, and the response made for
\* the client carries the secondary status and exactly those n body bytes.
C5_RelayCarriesBody ==
    \A t \in Txns :
       ( /\ Attempted(t)
         /\ "StateAuthProxySendResponse" \in hist[t].ran
         /\ "StateAuthProxyReadContent" \in hist[t].ran
         /\ ~auth[t].rheader.chunked
         /\ auth[t].rheader.clen > 0
         /\ Len(auth[t].iobuf) = auth[t].rheader.clen ) =>
          /\ OsDnsReenables(t) = Refused
          /\ txn[t].clientResp.status = auth[t].rheader.status
          /\ txn[t].errorBody = BytesBody(auth[t].iobuf)

\* C6: a response with a status in 300..599 that declares chunked encoding is
\* denied straight from header completion, through
\* AuthChainAuthorizationResponse: the state pointer never names
\* StateTableProxyReadContent, whatever Content-Length says, and the client
\* response is made of the header alone.
C6_ChunkedDeniedFromHeaders ==
    \A t \in Txns :
       ( /\ Attempted(t)
         /\ HeadersComplete(t)
         /\ auth[t].rheader.status \in 300..599
         /\ auth[t].rheader.chunked ) =>
          /\ NeverReadContent(t)
          /\ Settled(t)
          /\ OsDnsReenables(t) = Refused
          /\ txn[t].sendHook
          /\ "StateUnauthorized" \notin hist[t].ran
          /\ "StateAuthProxySendResponse" \in hist[t].ran =>
                /\ txn[t].errorBody = StatusReasonBody(auth[t].rheader.status)
                /\ txn[t].clientResp.status = auth[t].rheader.status
                /\ txn[t].clientResp.chunked

\* C6 witness: a chunked 599 declaring the largest Content-Length, with body
\* bytes in the buffer and read_body set, relayed to the client.
C6_Witness ==
    /\ HeadersComplete(1)
    /\ auth[1].rheader = [status |-> 599, chunked |-> TRUE, clen |-> MaxClen]
    /\ auth[1].read_body
    /\ Len(auth[1].iobuf) > 0
    /\ "StateAuthProxySendResponse" \in hist[1].ran

\* C7: with the HEAD-to-origin transform the attempt never has its state
\* pointer on StateTableProxyReadContent, and once the headers are complete it
\* has no read outstanding, for every status and Content-Length.
C7_HeadNeverReadsBody ==
    \A t \in Txns :
       (Attempted(t) /\ HeadTransform(t)) =>
          /\ NeverReadContent(t)
          /\ hist[t].opens = 1 => ~auth[t].read_body
          /\ HeadersComplete(t) => (Settled(t) /\ net[t].pending = "none" /\ ~net[t].open)

\* C7 witness: a HEAD-to-origin attempt whose 403 answer declares a positive
\* Content-Length without chunking, now waiting for the send-response hook.
C7_Witness ==
    /\ Attempted(1) /\ HeadTransform(1)
    /\ HeadersComplete(1)
    /\ auth[1].rheader = [status |-> 403, chunked |-> FALSE, clen |-> MaxClen]
    /\ auth[1].state = "StateTableSendResponse"

\* The lookup of the attempt of t failed and the failure has been handled.
ResolveFailed(t) ==
    \/ hist[t].dns = "NULL" /\ "StateAuthProxyConnect" \in hist[t].ran
    \/ /\ HeadTransform(t)
       /\ txn[t].originHost = "missing"
       /\ "StateAuthProxyResolve" \in hist[t].ran

\* C8: when host resolution fails (HOST_LOOKUP with a NULL result, in line or
\* later, or no origin host in HEAD mode) the attempt is Denied: return status
\* 403, HTTP_ERROR at the OS_DNS hook, no connection opened, the attempt
\* destroyed once, the process alive and no freed memory read.
C8_ResolveFailureDenied ==
    \A t \in Txns :
       (Attempted(t) /\ ResolveFailed(t)) =>
          /\ ~auth[t].alive
          /\ hist[t].destroys = 1
          /\ "StateUnauthorized" \in hist[t].ran
          /\ OsDnsReenables(t) = Refused
          /\ txn[t].retStatus = TS_HTTP_STATUS_FORBIDDEN
          /\ txn[t].errorBody = ForbiddenBody
          /\ txn[t].at = "responded"
          /\ hist[t].opens = 0
          /\ ~hist[t].uaf
          /\ aborted = "no"

\* C8 witness: a lookup that failed in line, the outer dispatch returned.
C8_Witness ==
    /\ stack = << >>
    /\ hist[1].inline
    /\ hist[1].dns = "NULL"
    /\ ~auth[1].alive

\* C9: EOS in ReadingBody with fewer bytes buffered than the declared
\* Content-Length ends the attempt Denied through the error path
\* (StateAuthProxyCompleteContent, then StateUnauthorized), never Authorized.
C9_ShortBodyEosDenied ==
    \A t \in Txns :
       ( /\ Attempted(t)
         /\ "StateAuthProxyCompleteContent" \in hist[t].ran
         /\ Len(auth[t].iobuf) < HttpGetContentLength(auth[t].rheader) ) =>
          /\ "StateUnauthorized" \in hist[t].ran
          /\ "StateAuthorized" \notin hist[t].ran
          /\ OsDnsReenables(t) = Refused
          /\ txn[t].retStatus = TS_HTTP_STATUS_FORBIDDEN
          /\ ~txn[t].sendHook
          /\ ~auth[t].alive

\* C9 witness: Content-Length 2, one body byte buffered, EOS handled.
C9_Witness ==
    /\ "StateAuthProxyCompleteContent" \in hist[1].ran
    /\ auth[1].rheader.clen = 2
    /\ Len(auth[1].iobuf) = 1
    /\ ~auth[1].alive

\* C10: when the lookup completes in line, the nested dispatch of HOST_LOOKUP
\* runs StateAuthProxyConnect exactly once and runs to its end, and the outer
\* dispatch then returns without running a handler and without reading,
\* changing or destroying the attempt: one HOST_LOOKUP, one StateAuthProxyConnect.
C10_InlineLookupOnce ==
    [][ /\ (stack # << >> /\ Len(stack) > 1 /\ Top.pc = "pump" /\ Top.event = "HOST_LOOKUP") =>
              /\ hist'[Top.t].connects = hist[Top.t].connects + 1
              /\ stack' = Pop
        /\ (stack # << >> /\ Top.pc = "ret") =>
              /\ stack' = Pop
              /\ <<auth, txn, net, hist, aborted>>' = <<auth, txn, net, hist, aborted>>
              /\ hist[Top.t].lookups = 1
              /\ hist[Top.t].connects = 1 ]_vars

\* C10 witness: an in-line lookup that gave an address: the nested dispatch ran
\* StateAuthProxyConnect once and started the write, the outer dispatch has
\* returned, and the attempt waits for the write to complete.
C10_Witness ==
    /\ stack = << >>
    /\ hist[1].inline
    /\ hist[1].dns = "addr"
    /\ hist[1].connects = 1
    /\ auth[1].alive
    /\ auth[1].state = "StateTableProxyRequest"
    /\ net[1].pending = "write"

\* C11: when the completion of a transport operation (TSHostLookup,
\* TSVConnWrite, TSVConnRead) is delivered inside the handler that issued it
\* and the nested dispatch destroys the attempt, the outer dispatch does not
\* read the destroyed attempt and does not destroy it a second time.
C11_SyncCompletionSafe ==
    \A t \in Txns : ~hist[t].uaf /\ hist[t].destroys <= 1 /\ aborted # "use after free"

\* C12: on a transaction the host reports as internally generated, every
\* OS_DNS hook invocation creates no attempt, marks the request non-cacheable
\* and re-enables the transaction with HTTP_CONTINUE, in global and in scoped
\* mode, tagged or not.
C12_InternalNeverIntercepted ==
    \A t \in Txns :
        txn[t].internal =>
            /\ ~Attempted(t)
            /\ ~auth[t].alive
            /\ txn[t].at \in {"os_dns_ready", "proceed"}
            /\ Len(hist[t].reenabled) =
                   OsDnsHooks(AuthGlobalOptions, txn[t].tag) - txn[t].hooksLeft
            /\ \A i \in 1..Len(hist[t].reenabled) :
                   hist[t].reenabled[i] = [hook |-> "os_dns", event |-> "HTTP_CONTINUE"]
            /\ (Len(hist[t].reenabled) > 0 => ~txn[t].cacheable)
            /\ txn[t].retStatus = 0

\* An internal transaction that is tagged, in global mode, has gone through
\* both hook invocations.
C12_Witness ==
    \E t \in Txns :
        /\ txn[t].internal
        /\ txn[t].tag # NullOptions
        /\ AuthGlobalOptions # NullOptions
        /\ Len(hist[t].reenabled) = 2
        /\ txn[t].at = "proceed"
        /\ ~txn[t].cacheable

\* The options object the attempt of transaction t has to use: the one
\* attached to its tag when it is tagged, the global one otherwise.
OptionsFor(t) == IF txn[t].tag # NullOptions THEN txn[t].tag ELSE AuthGlobalOptions

\* C13: a non-internal transaction gets an attempt at the OS_DNS hook if and
\* only if global options exist or a remap rule tagged it, and every handler
\* that consults the options (Resolve and Connect for the transform,
\* Authorized for force) uses the tag's options for a tagged transaction and
\* the global options for an untagged one.
C13_ActivationAndOptions ==
    \A t \in Txns :
        (txn[t].at # "absent" /\ ~txn[t].internal) =>
            LET hookRan == txn[t].hooksLeft < OsDnsHooks(AuthGlobalOptions, txn[t].tag)
                hooked  == AuthGlobalOptions # NullOptions \/ txn[t].tag # NullOptions
                head    == OptTransform(OptionsFor(t)) = "AuthWriteHeadRequest"
            IN  /\ Attempted(t) <=> (hooked /\ hookRan)
                /\ ~hooked => txn[t].at = "proceed"
                /\ "StateAuthProxyResolve" \in hist[t].ran =>
                       (txn[t].originHost # "unread" <=> head)
                /\ hist[t].opens > 0 => (auth[t].read_body <=> ~head)
                /\ "StateAuthorized" \in hist[t].ran =>
                       (txn[t].ignoreAuth <=> OptForce(OptionsFor(t)))
                /\ txn[t].ignoreAuth => OptForce(OptionsFor(t))

\* A tagged transaction in global mode, whose tag names the HEAD transform
\* without force while the global options name the redirect with force, was
\* authorized by a HEAD probe and is not forced cacheable.
C13_Witness ==
    \E t \in Txns :
        /\ ~txn[t].internal
        /\ txn[t].tag # NullOptions /\ AuthGlobalOptions # NullOptions
        /\ OptTransform(txn[t].tag) = "AuthWriteHeadRequest"
        /\ OptTransform(AuthGlobalOptions) = "AuthWriteRedirectedRequest"
        /\ ~OptForce(txn[t].tag) /\ OptForce(AuthGlobalOptions)
        /\ "StateAuthorized" \in hist[t].ran
        /\ ~auth[t].read_body
        /\ ~txn[t].ignoreAuth

\* The table a state pointer names has no entry for the event.
NoEntry(state, event) ==
    \A i \in 1..Len(Table(state)) : Table(state)[i].event # event

\* C14: when dispatch receives an event for which the attempt's current state
\* table has no entry, the release assertion ends the process: no handler
\* runs, the state pointer keeps its value, the transaction is not re-enabled
\* and gets no denial, and the event is not dropped with the process going on.
C14_NoEntryAborts ==
    [][ ( /\ aborted = "no"
          /\ stack # << >>
          /\ Top.pc = "pump"
          /\ auth[Top.t].alive
          /\ NoEntry(auth[Top.t].state, Top.event) ) =>
            /\ aborted' = "TSReleaseAssert"
            /\ auth' = auth
            /\ txn' = txn
            /\ net' = net
            /\ hist' = hist ]_vars

\* The peer closed the connection while the request was being written: the
\* event has no entry in StateTableProxyRequest and the process has aborted
\* with the transaction still blocked at the OS_DNS hook.
C14_Witness ==
    /\ aborted = "TSReleaseAssert"
    /\ stack # << >>
    /\ Top.event = "VCONN_EOS"
    /\ auth[Top.t].alive
    /\ auth[Top.t].state = "StateTableProxyRequest"
    /\ txn[Top.t].at = "os_dns"
    /\ hist[Top.t].reenabled = << >>

\* The names the command line gave to auth-transform.
TransformArgs ==
    {parse.argv[i].optarg : i \in {j \in 1..Len(parse.argv) : parse.argv[j].code = "t"}}

\* The name is neither "redirect" nor "head" in any case.
UnknownTransform(name) == ToLower(name) \notin {"redirect", "head"}

\* C15: when auth-transform is given a name other than redirect or head (in
\* any case), AuthParseOptions reports a configuration error and the options
\* it returns do not carry a transform put in the place of the unknown name,
\* in particular not the default redirect transform.
C15_UnknownTransformNotSubstituted ==
    ( /\ parse.returned
      /\ TransformArgs # {}
      /\ \A name \in TransformArgs : UnknownTransform(name) ) =>
        /\ parse.errors > 0
        /\ parse.options.transform # "AuthWriteRedirectedRequest"

\* The step changes something of transaction t: its attempt, its connection
\* and buffers, the host's transaction or what the attempt has done.
Changed(t) ==
    \/ auth'[t] # auth[t]
    \/ net'[t] # net[t]
    \/ txn'[t] # txn[t]
    \/ hist'[t] # hist[t]

\* The outcome of the attempt of t follows from its own lookup, connection and
\* answer: let through only on its own 2xx answer, a relayed denial carrying
\* the status of its own answer.
OutcomeIsOwn(t) ==
    /\ OsDnsReenables(t) = Allowed =>
           /\ hist[t].dns = "addr"
           /\ net[t].resp.chosen /\ ~net[t].resp.malformed
           /\ IsAuthorizedStatus(net[t].resp.header.status)
    /\ "StateAuthProxySendResponse" \in hist[t].ran =>
           /\ net[t].resp.chosen /\ ~net[t].resp.malformed
           /\ txn[t].clientResp.status = net[t].resp.header.status
           /\ txn[t].errorBody = StatusReasonBody(net[t].resp.header.status)

\* C16: with two attempts in flight whose events interleave, a step taken for
\* one attempt (a notification delivered to it, a run of dispatch on it, its
\* denial, error or destruction) changes the state table, connection, buffers
\* and outcome of that attempt only, and each attempt's outcome and client
\* response follow from its own events.
C16_AttemptsIsolated ==
    [][ /\ \A t, u \in Txns : (Changed(t) /\ Changed(u)) => t = u
        /\ \A t \in Txns : (Changed(t) /\ stack # << >>) => Top.t = t
        /\ \A t \in Txns : (Changed(t) /\ stack = << >> /\ stack' # << >>) =>
                                stack'[1].t = t
        /\ \A t \in Txns : Attempted(t) => OutcomeIsOwn(t) ]_vars

\* One attempt was denied with 403 and destroyed while the other, still in
\* flight with its connection open and a read outstanding, goes on.
C16_Witness ==
    \E t, u \in Txns :
        /\ t # u
        /\ Attempted(t) /\ ~auth[t].alive
        /\ OsDnsReenables(t) = Refused
        /\ hist[t].destroys = 1
        /\ Attempted(u) /\ auth[u].alive
        /\ auth[u].state = "StateTableProxyReadHeader"
        /\ net[u].open /\ net[u].pending = "read"
        /\ OsDnsReenables(u) = << >>

\* The handlers reached through a transition whose next table is NULL.
TerminalHandlers ==
    UNION {{Table(name)[i].handler :
                i \in {j \in 1..Len(Table(name)) : Table(name)[j].next = "NULL"}} :
           name \in TableNames}

C18_NestedEventSeesNextTable ==
    (Len(stack) > 1 /\ Top.pc = "pump") =>
        LET outer == stack[Len(stack) - 1]
            taken == FindTransition(outer.left, outer.event)
        IN  /\ outer.pc = "ret"
            /\ outer.t = Top.t
            /\ taken.handler # "NULL"
            /\ auth[Top.t].state = taken.next
            /\ ~NoEntry(taken.next, Top.event)

\* TSVConnRead notified the read inside StateAuthProxyWriteComplete: the
\* nested READ_READY is about to be looked up in StateTableProxyReadHeader,
\* while StateTableProxyRequest, the table being left, has no entry for it.
C18_Witness ==
    /\ Len(stack) > 1
    /\ Top.pc = "pump"
    /\ Top.event = "VCONN_READ_READY"
    /\ stack[Len(stack) - 1].event = "VCONN_WRITE_COMPLETE"
    /\ stack[Len(stack) - 1].left = "StateTableProxyRequest"
    /\ auth[Top.t].state = "StateTableProxyReadHeader"
    /\ NoEntry("StateTableProxyRequest", Top.event)

\* C19: an attempt moves through its state tables only forward, Init,
\* ProxyRequest, ProxyReadHeader, optionally ProxyReadContent, optionally
\* SendResponse, then terminated, and issues its operations in order: connect
\* only after a successful lookup, write only after a successful connect and
\* transform, read only after the write has completed.
C19_ForwardOrder ==
    \A t \in Txns :
        Attempted(t) =>
            /\ ~hist[t].back
            /\ \A name \in hist[t].entered : Rank(name) <= Rank(auth[t].state)
            /\ hist[t].opens > 0 =>
                   /\ hist[t].lookups = 1
                   /\ hist[t].dns = "addr"
            /\ net[t].pending = "lookup" => (hist[t].lookups = 0 /\ hist[t].opens = 0)
            /\ net[t].pending = "write" =>
                   /\ net[t].open
                   /\ auth[t].iobuf = RequestBytes
                   /\ "StateAuthProxyWriteComplete" \notin hist[t].ran
            /\ "StateAuthProxyWriteComplete" \in hist[t].ran => hist[t].opens = 1
            /\ (net[t].pending = "read" \/ net[t].sent > 0) =>
                   "StateAuthProxyWriteComplete" \in hist[t].ran
            /\ "StateTableProxyReadHeader" \in hist[t].entered =>
                   "StateAuthProxyWriteComplete" \in hist[t].ran
            /\ "StateTableProxyReadContent" \in hist[t].entered => HeadersComplete(t)
            /\ "StateTableSendResponse" \in hist[t].entered => HeadersComplete(t)

\* An attempt that went through every table, in order, and terminated.
C19_Witness ==
    \E t \in Txns :
        /\ hist[t].entered = (TableNames \ {"StateTableInit"}) \cup {"NULL"}
        /\ ~auth[t].alive
        /\ ~hist[t].back

\* C20: after the headers are complete the attempt enters ReadingBody
\* (StateTableProxyReadContent) if and only if the status is not 2xx,
\* read_body is true, the response is not chunked and the declared
\* Content-Length is positive; a non-2xx response in every other case
\* (read_body false, chunked, Content-Length zero or absent) goes straight to
\* the relay denial, using only the headers.
C20_BodyReadDecision ==
    \A t \in Txns :
        (Attempted(t) /\ HeadersComplete(t)) =>
            LET h       == auth[t].rheader
                denied  == h.status < 200 \/ h.status > 299
                hasBody == auth[t].read_body /\ ~h.chunked /\ h.clen > 0
            IN  /\ "StateAuthProxyCompleteHeaders" \in hist[t].ran
                /\ h = net[t].resp.header
                /\ "StateTableProxyReadContent" \in hist[t].entered <=> (denied /\ hasBody)
                /\ (denied /\ ~hasBody) =>
                       /\ hist[t].ran \cap {"StateAuthProxyReadContent",
                                            "StateAuthProxyCompleteContent",
                                            "StateUnauthorized", "StateAuthorized"} = {}
                       /\ "StateTableSendResponse" \in hist[t].entered
                       /\ txn[t].sendHook
                       /\ OsDnsReenables(t) = Refused
                       /\ txn[t].retStatus = 0

\* A 403 with "Content-Length: 0" under the redirect transform was relayed
\* from its headers; the bytes that came after the header block stayed unread.
C20_Witness ==
    \E t \in Txns :
        /\ HeadersComplete(t)
        /\ auth[t].rheader.status = 403
        /\ auth[t].rheader.clen = 0
        /\ ~auth[t].rheader.chunked
        /\ auth[t].read_body
        /\ "StateTableProxyReadContent" \notin hist[t].entered
        /\ "StateAuthProxySendResponse" \in hist[t].ran
        /\ Len(auth[t].iobuf) > 0

\* The attempt has entered ReadingBody.
ReadingBodyEntered(t) == "StateTableProxyReadContent" \in hist[t].entered

\* C21: in ReadingBody the attempt stays while the buffered byte count is below
\* the declared Content-Length and moves to the relay denial exactly when the
\* count is at least the declared length (once its notification has been
\* dispatched); the count holds body bytes only, the header bytes having been
\* consumed by StateAuthProxyReadHeaders.
C21_BodyCountedWithoutHeader ==
    \A t \in Txns :
        (Attempted(t) /\ ReadingBodyEntered(t)) =>
            LET needed == auth[t].rheader.clen
                avail  == Len(auth[t].iobuf)
            IN  /\ needed > 0
                /\ avail = net[t].sent - HdrLen
                /\ \A i \in 1..avail : auth[t].iobuf[i] = i
                /\ (auth[t].alive /\ auth[t].state = "StateTableProxyReadContent"
                                  /\ Idle) =>
                       /\ avail < needed
                       /\ OsDnsReenables(t) = << >>
                       /\ ~txn[t].sendHook
                /\ (avail >= needed /\ Idle) =>
                       /\ txn[t].sendHook
                       /\ OsDnsReenables(t) = Refused
                       /\ "StateTableSendResponse" \in hist[t].entered
                       /\ "StateUnauthorized" \notin hist[t].ran
                /\ txn[t].sendHook => avail >= needed

\* One body byte of two is buffered: the attempt waits in ReadingBody.
C21_Witness ==
    \E t \in Txns :
        /\ auth[t].alive
        /\ auth[t].state = "StateTableProxyReadContent"
        /\ "StateAuthProxyReadContent" \in hist[t].ran
        /\ auth[t].rheader.clen = 2
        /\ Len(auth[t].iobuf) = 1
        /\ net[t].pending = "read"

\* The notifications a read delivers while data flows.
ReadEvents == {"VCONN_READ_READY", "VCONN_READ_COMPLETE"}

\* The attempt of transaction t has ended Denied by the forced 403 response.
DeniedByForbidden(t) ==
    /\ ~auth[t].alive
    /\ hist[t].destroys = 1
    /\ OsDnsReenables(t) = Refused
    /\ "StateUnauthorized" \in hist[t].ran
    /\ txn[t].retStatus = TS_HTTP_STATUS_FORBIDDEN
    /\ ~txn[t].sendHook
    /\ ~net[t].open
    /\ net[t].pending = "none"

\* The run of dispatch that is about to start, for transaction t.
Running(t) == aborted = "no" /\ stack # << >> /\ Top.pc = "pump" /\ Top.t = t

\* The run of dispatch that is about to start handles a failure between
\* resolution success and header completion: an ERROR event in the ProxyRequest
\* or ProxyReadHeader table, VCONN_EOS before the headers are complete, a
\* malformed header block, or a resolved address TSHttpConnect will not connect.
FailureBeforeHeaders(t) ==
    LET st == auth[t].state
        e  == Top.event
    IN  \/ e = "ERROR" /\ st \in {"StateTableProxyRequest", "StateTableProxyReadHeader"}
        \/ e = "VCONN_EOS" /\ st = "StateTableProxyReadHeader"
        \/ /\ e \in ReadEvents
           /\ st = "StateTableProxyReadHeader"
           /\ TSHttpHdrParseResp(auth[t].parsed, auth[t].iobuf, net[t].resp).result
                  = "TS_PARSE_ERROR"
        \/ /\ e = "HOST_LOOKUP"
           /\ st = "StateTableProxyRequest"
           /\ Top.edata = "addr"
           /\ hist'[t].connects = hist[t].connects + 1
           /\ hist'[t].opens = hist[t].opens

\* The run of dispatch that is about to start feeds the parser bytes that do not
\* complete the header block.
ParserNeedsMore(t) ==
    /\ Top.event \in ReadEvents
    /\ auth[t].state = "StateTableProxyReadHeader"
    /\ TSHttpHdrParseResp(auth[t].parsed, auth[t].iobuf, net[t].resp).result
           = "TS_PARSE_CONT"

\* C22: every failure between resolution success and header completion
\* (TSHttpConnect returning NULL, an ERROR event in the ProxyRequest or
\* ProxyReadHeader table, TS_PARSE_ERROR, VCONN_EOS before the headers are
\* complete) ends the attempt Denied within the run of dispatch that handles it,
\* and while the parser needs more data the attempt stays in ReadingHeaders with
\* its read outstanding.
C22_FailuresBeforeHeadersDeny ==
    [][\A t \in Txns :
           Running(t) =>
               /\ FailureBeforeHeaders(t) => DeniedByForbidden(t)'
               /\ ParserNeedsMore(t) =>
                      /\ auth'[t].alive
                      /\ auth'[t].state = "StateTableProxyReadHeader"
                      /\ auth'[t].parsed < HdrLen
                      /\ net'[t].pending = "read"
                      /\ hist'[t].reenabled = << >>
                      /\ stack' = << >>]_vars

\* A malformed header block has been answered with the forced 403 response.
C22_Witness ==
    \E t \in Txns :
        /\ net[t].resp.malformed
        /\ "StateAuthProxyReadHeaders" \in hist[t].ran
        /\ "StateAuthProxyCompleteHeaders" \notin hist[t].ran
        /\ DeniedByForbidden(t)

\* C23: after StateAuthProxySendResponse, for a request that is not HEAD the
\* Content-Length of the client response equals the length of the body set on
\* the response (whatever the length of the reason phrase); for a HEAD request
\* it is the Content-Length of the secondary response.
C23_ContentLengthMatchesBody ==
    \A t \in Txns :
        (Attempted(t) /\ "StateAuthProxySendResponse" \in hist[t].ran) =>
            IF auth[t].is_head
            THEN txn[t].clientResp.clen = auth[t].rheader.clen
            ELSE \E reason \in 0..MaxReason :
                    txn[t].clientResp.clen = ErrorBodyLength(txn[t].errorBody, reason)

\* The secondary server closed the connection in ReadingBody before the
\* declared Content-Length was buffered, and the attempt has ended.
ShortBodyAtEos(t) ==
    /\ Attempted(t)
    /\ "StateAuthProxyCompleteContent" \in hist[t].ran
    /\ Len(auth[t].iobuf) < HttpGetContentLength(auth[t].rheader)
    /\ ~auth[t].alive

\* C24: when end-of-stream arrives in ReadingBody before the declared
\* Content-Length is buffered, the outcome is Denied and the client response is
\* built from the secondary response (its status and header, through the
\* send-response hook), not replaced by the fixed 403 response.
C24_ShortBodyRelaysSecondary ==
    \A t \in Txns :
        ShortBodyAtEos(t) =>
            /\ OsDnsReenables(t) = Refused
            /\ "StateAuthProxySendResponse" \in hist[t].ran
            /\ txn[t].clientResp.status = auth[t].rheader.status
            /\ txn[t].errorBody # ForbiddenBody
            /\ txn[t].retStatus # TS_HTTP_STATUS_FORBIDDEN

\* C25: on every terminal transition the secondary connection is closed before
\* the host is told to resume the transaction: TSHttpTxnReenable for the OS_DNS
\* hook never runs while the attempt's secondary connection is open.
C25_ClosedBeforeResume ==
    \A t \in Txns : Attempted(t) => ~hist[t].resumedOpen

\* This step re-enables transaction t at the OS_DNS hook with event.
ResumedWith(t, event) ==
    hist'[t].reenabled = Append(hist[t].reenabled, [hook |-> "os_dns", event |-> event])

\* C26: the run of dispatch that ends Authorized sets the host's
\* ignore-authentication cache setting if and only if the attempt's options
\* have force, and the setting is in place when the transaction is re-enabled
\* with HTTP_CONTINUE; no other step, a Denied outcome included, changes it.
C26_IgnoreAuthOnlyWhenForced ==
    [][\A t \in Txns :
           IF Running(t) /\ ResumedWith(t, "HTTP_CONTINUE")
           THEN /\ "StateAuthorized" \in hist'[t].ran
                /\ txn'[t].ignoreAuth = (txn[t].ignoreAuth \/ OptForce(OptionsFor(t)))
                /\ hist'[t].resumedIgnoreAuth = txn'[t].ignoreAuth
           ELSE txn'[t].ignoreAuth = txn[t].ignoreAuth]_vars

\* A transaction whose options have force was authorized: the setting was in
\* place when it resumed.
C26_Witness ==
    \E t \in Txns :
        /\ "StateAuthorized" \in hist[t].ran
        /\ OptForce(OptionsFor(t))
        /\ OsDnsReenables(t) = Allowed
        /\ txn[t].ignoreAuth
        /\ hist[t].resumedIgnoreAuth
        /\ ~auth[t].alive

\* What the host was told on the relay denial path, in order.
Relayed ==
    << [hook |-> "os_dns", event |-> "HTTP_ERROR"],
       [hook |-> "send_response", event |-> "HTTP_CONTINUE"] >>

\* C27: on the relay denial path the send-response hook is on the transaction
\* when it is re-enabled with HTTP_ERROR, the attempt then waits in the
\* SendResponse table, and SEND_RESPONSE_HDR is handled exactly once by
\* StateAuthProxySendResponse, which rewrites the client response, re-enables
\* with HTTP_CONTINUE and is the step after which the attempt is destroyed;
\* also when the host delivers SEND_RESPONSE_HDR from inside the HTTP_ERROR
\* re-enable.
C27_RelayHandledOnce ==
    /\ aborted = "no"
    /\ \A t \in Txns :
          (Attempted(t) /\ txn[t].sendHook) =>
              LET sent == "StateAuthProxySendResponse" \in hist[t].ran
              IN  /\ ~hist[t].uaf
                  /\ ~hist[t].resumedOpen
                  /\ "StateUnauthorized" \notin hist[t].ran
                  /\ (Idle /\ ~sent) =>
                         /\ auth[t].alive
                         /\ auth[t].state = "StateTableSendResponse"
                         /\ txn[t].at = "send_response_ready"
                         /\ hist[t].reenabled = Refused
                  /\ sent =>
                         /\ hist[t].reenabled = Relayed
                         /\ txn[t].at = "responded"
                         /\ txn[t].clientResp.status = auth[t].rheader.status
                         /\ txn[t].errorBody = StatusReasonBody(auth[t].rheader.status)
                  /\ (Idle /\ sent) => (~auth[t].alive /\ hist[t].destroys = 1)
                  /\ ~auth[t].alive => sent

\* The host delivered SEND_RESPONSE_HDR from inside the HTTP_ERROR re-enable,
\* and the relay has completed.
C27_Witness ==
    \E t \in Txns :
        /\ hist[t].sendInline
        /\ Idle
        /\ ~auth[t].alive
        /\ hist[t].reenabled = Relayed
        /\ "StateAuthProxySendResponse" \in hist[t].ran
        /\ txn[t].at = "responded"

\* C28: no notification of the secondary connection drives dispatch into the
\* missing-handler assertion: VCONN_EOS or a read notification in the
\* ProxyRequest table and VCONN_WRITE_COMPLETE in a read table each find a
\* transition, and the process never aborts on the assertion.
C28_NoDeliverableEventAsserts ==
    /\ aborted # "TSReleaseAssert"
    /\ \A t \in Txns :
          (Running(t) /\ auth[t].alive /\ Top.event \in VConnEvents) =>
              ~NoEntry(auth[t].state, Top.event)

\* C29: with the OS_DNS hook registered both globally and for the tagged
\* transaction, a tagged request that is not internal gets exactly one
\* authorization attempt and one secondary request, and no invocation of the
\* hook leaves the transaction blocked without an attempt.
C29_OneAttemptPerRequest ==
    \A t \in Txns :
        /\ (AuthGlobalOptions # NullOptions /\ AuthRequestIsTagged(txn[t])
                /\ ~txn[t].internal) =>
               /\ hist[t].attempts <= 1
               /\ txn[t].at \in {"proceed", "responded"} => hist[t].attempts = 1
        /\ (Idle /\ txn[t].at = "os_dns") => auth[t].alive

====
